---- MODULE Spec2Model ----
(***************************************************************************)
(* Session core of the cube race server: the socket handlers of            *)
(* src/server/sockets/handlers/gameHandler.ts acting on the shared         *)
(* deps['players'] (Player Registry) and deps['rooms'] (Room Directory).   *)
(* Every socket event is handled to completion before the next one, so     *)
(* each handler is one atomic action.                                      *)
(*                                                                         *)
(* Player and Room objects are shared references.  A Player object is      *)
(* identified by its id (the registry never holds two with one id), a Room *)
(* object by its roomID (a new id never collides with a listed one and     *)
(* every created room is listed), so object fields are functions of the    *)
(* id and the two collections are sequences of ids, which may repeat.      *)
(***************************************************************************)
EXTENDS Integers, Sequences, FiniteSets, TLC

\* ---- bounds of the model ----
NumConns == 3
NumRooms == 2
MaxDirLen == 3
MaxSolveTime == 1
MaxEvents == 10

\* capacity of a Room (room.ts, getMaxPlayerCount)
MaxPlayerCount == 2

Conns == 1..NumConns
RoomIDs == {10 + i : i \in 1..NumRooms}
NoRoom == 0
\* the username is stored and never read by a handler: one input, the empty name
Usernames == {""}

GAME_NOT_STARTED == "GAME_NOT_STARTED"
GAME_IN_PROGRESS == "GAME_IN_PROGRESS"
GAME_FINISHED == "GAME_FINISHED"

VARIABLES
  open,      \* open[c]: socket c is connected (its handlers can still fire)
  players,   \* deps['players']: sequence of Player ids
  rooms,     \* deps['rooms']: sequence of Room ids (references, may repeat)
  player,    \* player[c]: fields of the Player object with id c
  room,      \* room[r]: fields of the Room object with roomID r
  ev,        \* the event handled last
  out,       \* the messages emitted while handling it, in order
  steps      \* number of events handled so far

vars == <<open, players, rooms, player, room, ev, out, steps>>

Range(s) == {s[i] : i \in 1..Len(s)}

\* new Player(socket.id, username)
NewPlayer(username) ==
  [username |-> username, status |-> GAME_NOT_STARTED, solveTime |-> 0, isDNF |-> FALSE]

\* new Room(newRoomID, io)
NewRoom == [players |-> <<>>, roomStatus |-> GAME_NOT_STARTED, rematch |-> {}]

\* emitted messages: <<event, target, payload>>; the target is a socket id or
\* a room id (the room's broadcast channel)
Msg(type, to, payload) == <<type, to, payload>>
Invalid(c) == Msg("join:invalid", c, 0)

\* deps['players'].some/find((p) => p.id === socket.id)
InRegistry(c) == c \in Range(players)

\* deps['rooms'].find: the first room of the directory among those satisfying
\* the predicate (matching), or NoRoom
FindFirst(matching) ==
  LET hits == {i \in 1..Len(rooms) : rooms[i] \in matching}
  IN IF hits = {} THEN NoRoom
     ELSE rooms[CHOOSE i \in hits : \A j \in hits : i <= j]

\* r.players.length <= r.getMaxPlayerCount() - 1 && r.roomStatus == GAME_NOT_STARTED
Joinable_wrongStatus(r) ==
  /\ Len(room[r].players) <= MaxPlayerCount - 1
  /\ room[r].roomStatus # GAME_NOT_STARTED

Joinable(r) ==
  /\ Len(room[r].players) <= MaxPlayerCount - 1
  /\ room[r].roomStatus = GAME_NOT_STARTED

FindJoinable == FindFirst({r \in RoomIDs : Joinable(r)})

\* r.players.some((p) => p.id === id)
Occupies(id, r) == id \in Range(room[r].players)

FindContaining(id) == FindFirst({r \in RoomIDs : Occupies(id, r)})

\* deps['rooms'].find((r) => r.roomID === roomID)
FindByID(rid) == FindFirst({rid})

\* the event being handled: its name, the delivering socket, its argument,
\* whether a new Room was constructed, and the room the socket occupied
\* when the event arrived
Event(op, c, arg, created) ==
  [op |-> op, conn |-> c, arg |-> arg, created |-> created, was |-> FindContaining(c)]

Init ==
  /\ open = [c \in Conns |-> TRUE]
  /\ players = <<>>
  /\ rooms = <<>>
  /\ player = [c \in Conns |-> NewPlayer("")]
  /\ room = [r \in RoomIDs |-> NewRoom]
  /\ ev = [op |-> "none", conn |-> 0, arg |-> 0, created |-> FALSE, was |-> NoRoom]
  /\ out = <<>>
  /\ steps = 0

\* ---- Room (room.ts): the methods the handlers call ----
\* A method maps the shared objects and the messages emitted so far,
\* [room, player, out], to their values after the call.
Start == [room |-> room, player |-> player, out |-> <<>>]

Without(s, id) == SelectSeq(s, LAMBDA x : x # id)

\* Room.removePlayer(id): removes the occupant
removePlayer(st, r, id) ==
  [st EXCEPT !.room[r].players = Without(@, id)]

\* Room.addPlayer(socket, player): appends to the occupant list; capacity and
\* status are not re-validated
addPlayer(st, r, id) ==
  [st EXCEPT !.room[r].players = Append(@, id)]

\* Room.startGame(): once occupancy equals maxPlayerCount the room goes to
\* GAME_IN_PROGRESS and the scramble is broadcast; otherwise a no-op.  (No
\* Room operation is described as writing Player.status; the only write of
\* it in the handlers is the reset in roomJoined.)
startGame(st, r) ==
  IF Len(st.room[r].players) = MaxPlayerCount
  THEN [st EXCEPT !.room[r].roomStatus = GAME_IN_PROGRESS,
                  !.out = Append(@, Msg("game:start", r, 0))]
  ELSE st

\* an occupant's race is over: a recorded solve or a DNF
Done(pl, id) == pl[id].solveTime > 0 \/ pl[id].isDNF

\* GAME_IN_PROGRESS --(all players finished or DNF)--> GAME_FINISHED
finishIfDone(st, r) ==
  IF /\ st.room[r].roomStatus = GAME_IN_PROGRESS
     /\ \A id \in Range(st.room[r].players) : Done(st.player, id)
  THEN [st EXCEPT !.room[r].roomStatus = GAME_FINISHED,
                  !.out = Append(@, Msg("game:finished", r, 0))]
  ELSE st

\* Room.playerSolveComplete(id): records the occupant's result (time,
\* DNF = false) and broadcasts the completion
playerSolveComplete(st, r, id, t) ==
  IF id \in Range(st.room[r].players)
  THEN finishIfDone([st EXCEPT !.player[id].solveTime = t,
                               !.player[id].isDNF = FALSE,
                               !.out = Append(@, Msg("player:completed", r, id))], r)
  ELSE st

\* Room.playerDNF(id): marks the occupant not-finished, keeps it in the list
playerDNF(st, r, id) ==
  IF id \in Range(st.room[r].players)
  THEN finishIfDone([st EXCEPT !.player[id].isDNF = TRUE], r)
  ELSE st

\* Room.handleInput(id, key): forwards the keystroke to the room, tagged with
\* its origin
handleInput(st, r, id, key) ==
  [st EXCEPT !.out = Append(@, Msg("keyboard:input", r, <<id, key>>))]

\* Room.processRematchRequest(id): adds id to the acceptance set; true iff
\* every current occupant is in it; the set is cleared on consensus
RematchAccepted(r, id) ==
  Range(room[r].players) \subseteq (room[r].rematch \cup {id})

processRematchRequest(st, r, id) ==
  [st EXCEPT !.room[r].rematch =
     IF Range(st.room[r].players) \subseteq (@ \cup {id}) THEN {} ELSE @ \cup {id}]

\* ---- player:initialize ----
\* if (deps['players'].some((p) => p.id === socket.id)) { ...; return; }
AlreadyExists_never(c) == FALSE

AlreadyExists(c) == InRegistry(c)

initializePlayer(c, username) ==
  /\ open[c]
  /\ ev' = Event("initialize", c, 0, FALSE)
  /\ IF AlreadyExists(c)
     THEN \* 'player already exists': logged, nothing emitted
          /\ out' = <<>>
          /\ UNCHANGED <<players, player>>
     ELSE \* (the !player branch cannot be taken: new never yields a falsy value)
          /\ player' = [player EXCEPT ![c] =
                          NewPlayer(IF username = "" THEN "an unnamed cuber" ELSE username)]
          /\ players' = Append(players, c)
          /\ out' = <<Msg("player:initialized", c, c)>>
  /\ UNCHANGED <<open, rooms, room>>

\* ---- room:join_random ----
\* genRanHex(5), retried while a listed room has the id: an id no listed room
\* has.  Room ids are only ever compared for equality, so the least unused id
\* stands for whichever one is drawn.
FreshIDs ==
  LET unused == RoomIDs \ Range(rooms)
  IN {r \in unused : \A q \in unused : r <= q}

\* joinRandomRoom that also enters the caller into the room it answers with
joinRandomRoom_joins(c) ==
  /\ open[c]
  /\ IF ~InRegistry(c)
     THEN /\ out' = <<Invalid(c)>>
          /\ ev' = Event("join_random", c, 0, FALSE)
          /\ UNCHANGED <<rooms, room>>
     ELSE LET found == FindJoinable
          IN \E rid \in (IF found # NoRoom THEN {found} ELSE FreshIDs) :
               /\ Len(rooms) < MaxDirLen
               /\ rooms' = Append(rooms, rid)
               /\ room' = addPlayer(Start, rid, c).room
               /\ out' = <<Msg("room:found", c, rid)>>
               /\ ev' = Event("join_random", c, 0, found = NoRoom)
  /\ UNCHANGED <<open, players, player>>

joinRandomRoom(c) ==
  /\ open[c]
  /\ IF ~InRegistry(c)
     THEN /\ out' = <<Invalid(c)>>
          /\ ev' = Event("join_random", c, 0, FALSE)
          /\ UNCHANGED rooms
     ELSE LET found == FindJoinable
          IN \E rid \in (IF found # NoRoom THEN {found} ELSE FreshIDs) :
               /\ Len(rooms) < MaxDirLen
               /\ rooms' = Append(rooms, rid)
               /\ out' = <<Msg("room:found", c, rid)>>
               /\ ev' = Event("join_random", c, 0, found = NoRoom)
  /\ UNCHANGED <<open, players, player, room>>

\* ---- room:join_rematch ----
\* const allPlayersAccepted = room.processRematchRequest(socket.id);
\* if (allPlayersAccepted) ...
RematchConsensus_always(r, c) == TRUE

RematchConsensus(r, c) == RematchAccepted(r, c)

\* if (!player) { emit('join:invalid'); return; }
\* if (!room)   { emit('join:invalid'); return; }
rematchInvalid_noReturn(c, cur) ==
  (IF ~InRegistry(c) THEN <<Invalid(c)>> ELSE <<>>) \o
  (IF cur = NoRoom THEN <<Invalid(c)>> ELSE <<>>)

rematchInvalid(c, cur) == <<Invalid(c)>>

joinRematchRoom(c) ==
  /\ open[c]
  /\ LET cur == FindContaining(c)
     IN IF ~InRegistry(c) \/ cur = NoRoom
        THEN /\ out' = rematchInvalid(c, cur)
             /\ ev' = Event("join_rematch", c, 0, FALSE)
             /\ UNCHANGED <<rooms, room>>
        ELSE LET st == processRematchRequest(Start, cur, c)
             IN IF RematchConsensus(cur, c)
                THEN LET found == FindJoinable
                     IN \E rid \in (IF found # NoRoom THEN {found} ELSE FreshIDs) :
                          /\ Len(rooms) < MaxDirLen
                          /\ rooms' = Append(rooms, rid)
                          /\ room' = st.room
                          /\ out' = <<Msg("room:found", cur, rid)>>
                          /\ ev' = Event("join_rematch", c, cur, found = NoRoom)
                ELSE /\ room' = st.room
                     /\ out' = <<>>
                     /\ ev' = Event("join_rematch", c, cur, FALSE)
                     /\ UNCHANGED rooms
  /\ UNCHANGED <<open, players, player>>

\* ---- room:joined ----
\* if (currentRoom) { currentRoom.removePlayer(player.id); socket.leave(...);
\*                    player.status/solveTime/isDNF reset }
leaveCurrentRoom_skip(st, cur, c) == st

\* leaves the room but keeps the Player's fields
leaveCurrentRoom_noReset(st, cur, c) ==
  IF cur # NoRoom THEN removePlayer(st, cur, c) ELSE st

\* resets the Player's fields but stays in the room
leaveCurrentRoom_resetOnly(st, cur, c) ==
  IF cur # NoRoom
  THEN [st EXCEPT !.player[c].status = GAME_NOT_STARTED,
                  !.player[c].solveTime = 0,
                  !.player[c].isDNF = FALSE]
  ELSE st

leaveCurrentRoom(st, cur, c) ==
  IF cur # NoRoom
  THEN [removePlayer(st, cur, c) EXCEPT !.player[c].status = GAME_NOT_STARTED,
                                        !.player[c].solveTime = 0,
                                        !.player[c].isDNF = FALSE]
  ELSE st

\* socket.join(room.roomID); room.addPlayer(socket, player); room.startGame();
startThenJoin(st, rid, c) == addPlayer(startGame(st, rid), rid, c)

joinAndStart(st, rid, c) == startGame(addPlayer(st, rid, c), rid)

roomJoined(c, rid) ==
  /\ open[c]
  /\ ev' = Event("joined", c, rid, FALSE)
  /\ IF ~InRegistry(c) \/ FindByID(rid) = NoRoom
     THEN /\ out' = <<Invalid(c)>>
          /\ UNCHANGED <<room, player>>
     ELSE LET st == joinAndStart(leaveCurrentRoom(Start, FindContaining(c), c), rid, c)
          IN /\ room' = st.room
             /\ player' = st.player
             /\ out' = st.out
  /\ UNCHANGED <<open, players, rooms>>

\* ---- keyboard:input ----
Keys == {"U"}

handleKeyboardInput(c, senderID, key) ==
  /\ open[c]
  /\ ev' = Event("input", c, senderID, FALSE)
  /\ LET r == FindContaining(senderID)
     IN out' = IF r = NoRoom THEN <<Invalid(c)>> ELSE handleInput(Start, r, senderID, key).out
  /\ UNCHANGED <<open, players, rooms, player, room>>

\* ---- player:completed_solve ----
\* let room = find(room containing socket.id); if (!room) return;
\* if (socket.id == socketID) room.playerSolveComplete(socketID);
solveComplete_unchecked(st, c, socketID, t) ==
  LET r == FindContaining(c)
  IN IF r = NoRoom THEN st ELSE playerSolveComplete(st, r, socketID, t)

solveComplete(st, c, socketID, t) ==
  LET r == FindContaining(c)
  IN IF r = NoRoom THEN st
     ELSE IF c = socketID THEN playerSolveComplete(st, r, socketID, t) ELSE st

handleSolveComplete(c, socketID) ==
  /\ open[c]
  /\ ev' = Event("completed_solve", c, socketID, FALSE)
  /\ \E t \in 1..MaxSolveTime :
       LET st == solveComplete(Start, c, socketID, t)
       IN /\ room' = st.room
          /\ player' = st.player
          /\ out' = st.out
  /\ UNCHANGED <<open, players, rooms>>

\* ---- disconnect ----
\* if (room) room.playerDNF(player.id);
dropFromRoom(st, r, c) == IF r # NoRoom THEN removePlayer(st, r, c) ELSE st

markDNF(st, r, c) == IF r # NoRoom THEN playerDNF(st, r, c) ELSE st

disconnectPlayer(c) ==
  /\ open[c]
  /\ open' = [open EXCEPT ![c] = FALSE]
  /\ ev' = Event("disconnect", c, 0, FALSE)
  /\ IF ~InRegistry(c)
     THEN /\ out' = <<Invalid(c)>>
          /\ UNCHANGED <<room, player>>
     ELSE LET st == markDNF(Start, FindContaining(c), c)
          IN /\ room' = st.room
             /\ player' = st.player
             /\ out' = st.out
  /\ UNCHANGED <<players, rooms>>

\* one socket event is dispatched and handled to completion
Handle(A) == steps < MaxEvents /\ steps' = steps + 1 /\ A

Next ==
  \/ \E c \in Conns, u \in Usernames : Handle(initializePlayer(c, u))
  \/ \E c \in Conns : Handle(joinRandomRoom(c))
  \/ \E c \in Conns : Handle(joinRematchRoom(c))
  \/ \E c \in Conns, rid \in RoomIDs : Handle(roomJoined(c, rid))
  \/ \E c \in Conns, s \in Conns, k \in Keys : Handle(handleKeyboardInput(c, s, k))
  \/ \E c \in Conns, s \in Conns : Handle(handleSolveComplete(c, s))
  \/ \E c \in Conns : Handle(disconnectPlayer(c))

Spec == Init /\ [][Next]_vars

\* ---- properties ----
\* C1: every player id is in the occupant list of at most one room.
C1_AtMostOneRoom ==
  \A c \in Conns : Cardinality({r \in RoomIDs : Occupies(c, r)}) <= 1

\* a joined event moved a player out of the room it occupied into another one
C1_Witness ==
  /\ ev.op = "joined"
  /\ ev.was # NoRoom
  /\ ev.was # ev.arg
  /\ Occupies(ev.conn, ev.arg)
  /\ ~Occupies(ev.conn, ev.was)

\* C2: no room's occupant count exceeds maxPlayerCount.
C2_CapacityRespected ==
  \A r \in RoomIDs : Len(room[r].players) <= MaxPlayerCount

\* C3: the Room Directory holds no two entries with the same roomID.
C3_NoDuplicateRoomID ==
  \A i, j \in 1..Len(rooms) : rooms[i] = rooms[j] => i = j

\* C4: once a connection's disconnect has been handled, the Player Registry
\* holds no Player with that connection's id.
C4_DisconnectRemovesPlayer ==
  \A c \in Conns : ~open[c] => ~InRegistry(c)

\* C5: a disconnect of a room occupant marks that occupant isDNF and leaves
\* every room's occupant list and every other player's result as they were.
C5_DisconnectMarksDNF ==
  [][(ev'.op = "disconnect" /\ ev'.was # NoRoom) =>
       /\ player'[ev'.conn].isDNF
       /\ ev'.conn \in Range(room'[ev'.was].players)
       /\ \A r \in RoomIDs : room'[r].players = room[r].players
       /\ \A d \in Conns \ {ev'.conn} :
            /\ player'[d].isDNF = player[d].isDNF
            /\ player'[d].solveTime = player[d].solveTime]_vars

\* an occupant of a room with another occupant has disconnected
C5_Witness ==
  /\ ev.op = "disconnect"
  /\ ev.was # NoRoom
  /\ player[ev.conn].isDNF
  /\ Occupies(ev.conn, ev.was)
  /\ Len(room[ev.was].players) >= 2

\* the room ids a sequence of emitted messages announces with room:found
FoundIDs(msgs) == {m[3] : m \in {x \in Range(msgs) : x[1] = "room:found"}}

\* C6: two consecutive join_random events of registered players are answered
\* with the same room id, and at most one of them creates a room.
C6_JoinRandomIdempotent ==
  [][(/\ ev.op = "join_random" /\ FoundIDs(out) # {}
      /\ ev'.op = "join_random" /\ FoundIDs(out') # {}) =>
       /\ FoundIDs(out') = FoundIDs(out)
       /\ ~(ev.created /\ ev'.created)]_vars

\* the first three events were an initialize and two answered join_random
C6_Witness ==
  /\ steps = 3
  /\ ev.op = "join_random"
  /\ Len(rooms) = 2
  /\ FoundIDs(out) = {rooms[1]}

\* C7: a join_rematch of an occupant multicasts room:found to the room
\* exactly when, with this vote, the acceptance set covers the occupants;
\* otherwise the vote is recorded and the set does not yet cover them.
C7_RematchConsensus ==
  [][(ev'.op = "join_rematch" /\ ev'.arg # NoRoom) =>
       LET r == ev'.arg
           covered == Range(room[r].players) \subseteq (room[r].rematch \cup {ev'.conn})
           multicast == \E m \in Range(out') : m[1] = "room:found" /\ m[2] = r
       IN /\ multicast <=> covered
          /\ room'[r].players = room[r].players
          /\ ~multicast => /\ room'[r].rematch = room[r].rematch \cup {ev'.conn}
                           /\ out' = <<>>]_vars

\* the second of two occupants voted and room:found went to their room
C7_Witness ==
  /\ ev.op = "join_rematch"
  /\ ev.arg # NoRoom
  /\ Len(room[ev.arg].players) = 2
  /\ \E m \in Range(out) : m[1] = "room:found" /\ m[2] = ev.arg

\* C8: a room goes from GAME_NOT_STARTED to GAME_IN_PROGRESS only in a joined
\* event for it after which it has exactly maxPlayerCount occupants; a joined
\* event leaving it below that leaves its status alone; and no room returns to
\* GAME_NOT_STARTED.
C8_StartOnlyWhenFull ==
  [][\A r \in RoomIDs :
       /\ (room[r].roomStatus = GAME_NOT_STARTED /\ room'[r].roomStatus = GAME_IN_PROGRESS) =>
            /\ ev'.op = "joined"
            /\ ev'.arg = r
            /\ Len(room'[r].players) = MaxPlayerCount
       /\ (ev'.op = "joined" /\ ev'.arg = r /\ Len(room'[r].players) < MaxPlayerCount) =>
            room'[r].roomStatus = room[r].roomStatus
       /\ room[r].roomStatus # GAME_NOT_STARTED =>
            room'[r].roomStatus # GAME_NOT_STARTED]_vars

\* a joined event has just filled a room and started its game
C8_Witness ==
  /\ ev.op = "joined"
  /\ ev.arg \in RoomIDs
  /\ room[ev.arg].roomStatus = GAME_IN_PROGRESS
  /\ Len(room[ev.arg].players) = MaxPlayerCount
  /\ Msg("game:start", ev.arg, 0) \in Range(out)

\* C9: a completed_solve whose claimed id is not the delivering socket's, or
\* whose socket occupies no room, changes nothing and emits nothing.
C9_MismatchedSolveIgnored ==
  [][(ev'.op = "completed_solve" /\ (ev'.arg # ev'.conn \/ ev'.was = NoRoom)) =>
       /\ UNCHANGED <<players, rooms, player, room>>
       /\ out' = <<>>]_vars

\* an occupant of a running room claimed a solve for another occupant of it
C9_Witness ==
  /\ ev.op = "completed_solve"
  /\ ev.arg # ev.conn
  /\ ev.was # NoRoom
  /\ Occupies(ev.arg, ev.was)
  /\ room[ev.was].roomStatus = GAME_IN_PROGRESS
  /\ out = <<>>

\* C10: an initialize of a connection that already has a Player is answered
\* with an invalid-join notification to that connection and adds no Player.
C10_ReinitializeRejected ==
  [][(ev'.op = "initialize" /\ InRegistry(ev'.conn)) =>
       /\ Invalid(ev'.conn) \in Range(out')
       /\ players' = players]_vars

\* C11: the Player Registry holds at most one Player per connection id.
C11_OnePlayerPerConnection ==
  \A i, j \in 1..Len(players) : players[i] = players[j] => i = j

\* a connection that has a Player sent initialize again
C11_Witness ==
  /\ ev.op = "initialize"
  /\ InRegistry(ev.conn)
  /\ out = <<>>

\* C12: a join_random changes no room and no Player; it answers the calling
\* connection alone, with room:found naming the room it listed or with the
\* rejection; and an occupant list changes only in a joined event.
C12_JoinRandomIsDiscoveryOnly ==
  [][/\ ev'.op = "join_random" =>
          /\ UNCHANGED <<room, player, players>>
          /\ \/ out' = <<Invalid(ev'.conn)>> /\ rooms' = rooms
             \/ /\ rooms' # rooms
                /\ out' = <<Msg("room:found", ev'.conn, rooms'[Len(rooms')])>>
     /\ \A r \in RoomIDs :
          room'[r].players # room[r].players => ev'.op = "joined"]_vars

\* a registered player was answered with a room that already has an occupant
C12_Witness ==
  /\ ev.op = "join_random"
  /\ \E r \in RoomIDs :
       /\ out = <<Msg("room:found", ev.conn, r)>>
       /\ Len(room[r].players) = 1
       /\ ~Occupies(ev.conn, r)

\* C13: an event that fails a lookup (no Player for join_random, join_rematch
\* or joined; no room holding the caller for join_rematch; no room with the
\* given id for joined; no room holding the claimed origin for input) emits
\* exactly one invalid notification, to the delivering connection, and leaves
\* the Registry, the Directory and every room and Player as they were.
C13_Rejected ==
  \/ ev'.op \in {"join_random", "join_rematch", "joined"} /\ ~InRegistry(ev'.conn)
  \/ ev'.op = "join_rematch" /\ ev'.was = NoRoom
  \/ ev'.op = "joined" /\ ev'.arg \notin Range(rooms)
  \/ ev'.op = "input" /\ \A r \in RoomIDs : ~Occupies(ev'.arg, r)

C13_LookupFailuresRejectedOnce ==
  [][C13_Rejected =>
       /\ out' = <<Invalid(ev'.conn)>>
       /\ UNCHANGED <<players, rooms, player, room>>]_vars

\* a connection that has neither a Player nor a room sent join_rematch while
\* a room with an occupant exists
C13_Witness ==
  /\ ev.op = "join_rematch"
  /\ ~InRegistry(ev.conn)
  /\ ev.was = NoRoom
  /\ out = <<Invalid(ev.conn)>>
  /\ \E r \in RoomIDs : room[r].players # <<>>

\* C14: the room id multicast when a join_rematch reaches consensus is not
\* the id of the room whose occupants voted.
C14_RematchRoomIsNew ==
  ev.op = "join_rematch" =>
    \A m \in Range(out) : m[1] = "room:found" => m[3] # ev.arg

\* C15: a player is added to a room's occupant list only while the room is
\* GAME_NOT_STARTED.
C15_JoinOnlyBeforeStart ==
  [][\A r \in RoomIDs : \A c \in Conns :
       (~Occupies(c, r) /\ c \in Range(room'[r].players)) =>
         room[r].roomStatus = GAME_NOT_STARTED]_vars

Phase(status) ==
  IF status = GAME_NOT_STARTED THEN 0 ELSE IF status = GAME_IN_PROGRESS THEN 1 ELSE 2

\* C17: no room returns to an earlier status.
C17_StatusOnlyForward ==
  [][\A r \in RoomIDs :
       Phase(room'[r].roomStatus) >= Phase(room[r].roomStatus)]_vars

\* C18: a room with occupants, each of whom has completed a solve or
\* disconnected, is not left GAME_IN_PROGRESS by any handler.
C18_FinishedWhenAllDone ==
  \A r \in RoomIDs :
    (room[r].roomStatus = GAME_IN_PROGRESS /\ room[r].players # <<>>) =>
      \E id \in Range(room[r].players) : ~Done(player, id)

\* C19: in a room with a disconnected occupant, the join_rematch that
\* completes the votes of the occupants still connected multicasts room:found
\* to the room.
C19_DepartedDoesNotBlock ==
  [][(ev'.op = "join_rematch" /\ ev'.arg # NoRoom) =>
       LET r == ev'.arg
           occupants == Range(room[r].players)
           connected == {d \in occupants : open[d]}
       IN (connected # occupants /\ connected \subseteq (room[r].rematch \cup {ev'.conn})) =>
            \E m \in Range(out') : m[1] = "room:found" /\ m[2] = r]_vars

\* C20: no room's occupant list holds the same player id twice.
C20_NoDuplicateOccupant ==
  \A r \in RoomIDs :
    \A i, j \in 1..Len(room[r].players) :
      room[r].players[i] = room[r].players[j] => i = j

\* a player sent joined for the room it already occupies
C20_Witness ==
  /\ ev.op = "joined"
  /\ ev.was # NoRoom
  /\ ev.was = ev.arg
  /\ Occupies(ev.conn, ev.arg)
====
